---- MODULE Spec2Model ----
(***************************************************************************)
(* Model of src/src/App.jsx: the App component of the photo gallery.       *)
(*                                                                         *)
(* Text (JavaScript strings entered by the user or sent by the backend) is *)
(* a sequence of one-character strings, so that trim, toLowerCase, split   *)
(* and includes are computed character by character.  The messages the     *)
(* component itself produces (the error texts) are TLA+ strings.           *)
(* An optional field of an object (description, tags) is a field that the  *)
(* record has or has not.                                                  *)
(***************************************************************************)
EXTENDS Integers, Sequences, FiniteSets, TLC

VARIABLES
    loading,          \* useState(false)                       line 19
    photos,           \* useState([])                          line 20
    error,            \* useState('')                          line 21
    title,            \* form fields                           lines 23-27
    description,
    imageUrl,
    tags,
    featured,
    selectedTag,      \* useState('All')                       line 29
    showFeaturedOnly, \* useState(false)                       line 30
    query,            \* useState('')                          line 31
    allTags,          \* useMemo value                         lines 55-59
    filtered,         \* useMemo value                         lines 61-68
    mounted,          \* whether the mount effect has run      lines 50-53
    inflight,         \* requests passed to fetch() and not yet settled
    nextId,           \* issue order of the requests
    photosFrom,       \* history: the request whose response photos holds
    lastEvent         \* history: the handler that ran last, and what it was given

vars == <<loading, photos, error, title, description, imageUrl, tags, featured,
          selectedTag, showFeaturedOnly, query, allTags, filtered, mounted,
          inflight, nextId, photosFrom, lastEvent>>

form == <<title, description, imageUrl, tags, featured>>

----------------------------------------------------------------------------
(* Bounds of the model.                                                    *)

\* Requests the component may issue in one behaviour.
MaxReqs == 4
\* The same, in SpecView.
MaxViewReqs == 2
\* The same, in SpecTags.
MaxTagsReqs == 3
\* Length of the search texts typed in SpecView.
MaxQueryLen == 2
\* Length of the tags inputs typed in SpecForm.
MaxTagsLen == 3

----------------------------------------------------------------------------
(* JavaScript string and array primitives.                                 *)

Upper == <<"A","B","C","D","E","F","G","H","I","J","K","L","M",
           "N","O","P","Q","R","S","T","U","V","W","X","Y","Z">>
Lower == <<"a","b","c","d","e","f","g","h","i","j","k","l","m",
           "n","o","p","q","r","s","t","u","v","w","x","y","z">>

\* The characters String.prototype.trim removes (those of the model's alphabet).
IsWhiteSpace(c) == c \in {" ", "\t"}

toLowerChar(c) ==
    IF \E i \in 1..Len(Upper) : Upper[i] = c
    THEN Lower[CHOOSE i \in 1..Len(Upper) : Upper[i] = c]
    ELSE c

\* String.prototype.toLowerCase
toLowerCase(s) == [i \in 1..Len(s) |-> toLowerChar(s[i])]

\* String.prototype.trim
RECURSIVE trimStart(_)
trimStart(s) ==
    IF s # <<>> /\ IsWhiteSpace(Head(s)) THEN trimStart(Tail(s)) ELSE s

RECURSIVE trimEnd(_)
trimEnd(s) ==
    IF s # <<>> /\ IsWhiteSpace(s[Len(s)])
    THEN trimEnd(SubSeq(s, 1, Len(s) - 1))
    ELSE s

trim(s) == trimEnd(trimStart(s))

\* String.prototype.includes
strIncludes(s, sub) ==
    \E i \in 0..(Len(s) - Len(sub)) : SubSeq(s, i + 1, i + Len(sub)) = sub

\* Array.prototype.includes
arrIncludes(arr, x) == \E i \in 1..Len(arr) : arr[i] = x

\* String.prototype.split with a one-character separator
RECURSIVE split(_, _)
split(s, sep) ==
    IF \E i \in 1..Len(s) : s[i] = sep
    THEN LET i == CHOOSE k \in 1..Len(s) :
                     s[k] = sep /\ \A j \in 1..(k - 1) : s[j] # sep
         IN  <<SubSeq(s, 1, i - 1)>> \o split(SubSeq(s, i + 1, Len(s)), sep)
    ELSE <<s>>

\* Set.prototype.add on a Set kept in insertion order
setAdd(t, x) == IF arrIncludes(t, x) THEN t ELSE Append(t, x)

----------------------------------------------------------------------------
(* Texts of the component.                                                 *)

All == <<"A","l","l">>

MsgRequired == "Title and Image URL are required"
MsgSave     == "Failed to save photo"
MsgLoad     == "Failed to load photos"
\* e.message of a rejected fetch() or of a res.json() that throws: the text
\* is the browser's, any one of these.
NetErrMsgs  == {"Failed to fetch"}

----------------------------------------------------------------------------
(* Derived views.                                                          *)

\* p.tags || []  and  p.description || ''
tagsOf(p) == IF "tags" \in DOMAIN p THEN p.tags ELSE <<>>
descriptionOf(p) == IF "description" \in DOMAIN p THEN p.description ELSE <<>>

RECURSIVE addAll(_, _)
addAll(t, arr) ==
    IF arr = <<>> THEN t ELSE addAll(setAdd(t, Head(arr)), Tail(arr))

RECURSIVE collectTags(_, _)
collectTags(t, ps) ==
    IF ps = <<>> THEN t
    ELSE collectTags(addAll(t, tagsOf(Head(ps))), Tail(ps))

\* useMemo(() => ['All', ...Array.from(t)], [photos])
AllTagsOf(ps) == <<All>> \o collectTags(<<>>, ps)

tagMatch(p, t) == t = All \/ arrIncludes(tagsOf(p), t)

\* As qMatch, the search text not trimmed.
qMatchUntrimmed(p, qs) ==
    LET q == toLowerCase(qs)
    IN  \/ q = <<>>
        \/ strIncludes(toLowerCase(p.title), q)
        \/ strIncludes(toLowerCase(descriptionOf(p)), q)

qMatch(p, qs) ==
    LET q == toLowerCase(trim(qs))
    IN  \/ q = <<>>
        \/ strIncludes(toLowerCase(p.title), q)
        \/ strIncludes(toLowerCase(descriptionOf(p)), q)

keep(p, t, qs) == tagMatch(p, t) /\ qMatch(p, qs)

\* useMemo(() => photos.filter(...), [photos, selectedTag, query])
RECURSIVE FilteredOf(_, _, _)
FilteredOf(ps, t, qs) ==
    IF ps = <<>> THEN <<>>
    ELSE (IF keep(Head(ps), t, qs) THEN <<Head(ps)>> ELSE <<>>)
         \o FilteredOf(Tail(ps), t, qs)

\* The render that follows every state change recomputes the memoised views.
Render ==
    /\ allTags' = AllTagsOf(photos')
    /\ filtered' = FilteredOf(photos', selectedTag', query')

----------------------------------------------------------------------------
(* Requests.                                                               *)

\* new URLSearchParams(); if (showFeaturedOnly) params.set('featured', 'true')
listParams(sfo) == IF sfo THEN {<<"featured", "true">>} ELSE {}

\* fetch(`${baseUrl}/api/photos?${params.toString()}`)
listRequest(id, sfo) ==
    [id |-> id, method |-> "GET", path |-> "/api/photos", params |-> listParams(sfo)]

\* tags.split(',').map(t => t.trim()).filter(Boolean)
trimEach(toks) == [i \in 1..Len(toks) |-> trim(toks[i])]
isTruthy(tok) == tok # <<>>
\* As ParseTags, without .filter(Boolean).
ParseTagsUnfiltered(s) == trimEach(split(s, ","))

ParseTags(s) == SelectSeq(trimEach(split(s, ",")), isTruthy)

\* The object handleAdd passes to JSON.stringify: a key whose value is
\* undefined is left out of the JSON text.
payloadOf(ti, de, im, ta, fe) ==
    LET base == [title |-> ti, image_url |-> im, tags |-> ParseTags(ta), featured |-> fe]
    IN  IF de # <<>>
        THEN [title |-> ti, description |-> de, image_url |-> im,
              tags |-> ParseTags(ta), featured |-> fe]
        ELSE base

\* fetch(`${baseUrl}/api/photos`, { method: 'POST', ... }).  closure is the
\* showFeaturedOnly of the render whose handleAdd is running: the fetchPhotos
\* that handleAdd calls after the await is the one of that render.
postRequest(id, body, sfo) ==
    [id |-> id, method |-> "POST", path |-> "/api/photos", body |-> body, closure |-> sfo]

Gets  == {r \in inflight : r.method = "GET"}
Posts == {r \in inflight : r.method = "POST"}

\* Requests issued so far plus the re-fetches the POSTs in flight may still issue.
Committed == (nextId - 1) + Cardinality(Posts)

\* The bound of a specification: the toggle issues one request; a submit
\* that passes the validation issues the POST and, later, a re-fetch.
MayToggle(cap) == Committed + 1 <= cap
MaySubmit(cap) == title = <<>> \/ imageUrl = <<>> \/ Committed + 2 <= cap

----------------------------------------------------------------------------
(* Inputs.                                                                 *)

Titles       == {<<>>, <<"t">>}
ImageUrls    == {<<>>, <<"u">>}
Descriptions == {<<>>, <<"d">>}
TagsInputs   == {<<>>, <<"x", ",", " ", "A", "l", "l">>}
Queries      == {<<>>, <<"t">>}

PhotoX == [id |-> 1, title |-> <<"t">>, image_url |-> <<"u">>,
           tags |-> <<<<"x">>, All>>, featured |-> TRUE]
PhotoY == [id |-> 2, title |-> <<"s">>, description |-> <<"d">>, image_url |-> <<"u">>,
           tags |-> <<<<"y">>>>, featured |-> FALSE]

PhotoLists == {<<>>, <<PhotoX>>, <<PhotoY, PhotoX>>}

isFeatured(p) == p.featured

\* The backend's answer to a list request: with featured=true, featured
\* photos only.
ResponsesFor(r, lists) ==
    IF <<"featured", "true">> \in r.params
    THEN {l \in lists : \A i \in 1..Len(l) : isFeatured(l[i])}
    ELSE lists

----------------------------------------------------------------------------
(* State after construction: the useState initial values, first render.   *)

Init ==
    /\ loading = FALSE
    /\ photos = <<>>
    /\ error = ""
    /\ title = <<>>
    /\ description = <<>>
    /\ imageUrl = <<>>
    /\ tags = <<>>
    /\ featured = FALSE
    /\ selectedTag = All
    /\ showFeaturedOnly = FALSE
    /\ query = <<>>
    /\ allTags = AllTagsOf(<<>>)
    /\ filtered = FilteredOf(<<>>, All, <<>>)
    /\ mounted = FALSE
    /\ inflight = {}
    /\ nextId = 1
    /\ photosFrom = [id |-> 0]
    /\ lastEvent = [type |-> "init"]

----------------------------------------------------------------------------
(* fetchPhotos up to its await: setLoading(true), setError(''), fetch().   *)

fetchPhotos(sfo, others) ==
    /\ loading' = TRUE
    /\ error' = ""
    /\ inflight' = others \cup {listRequest(nextId, sfo)}
    /\ nextId' = nextId + 1

\* useEffect(() => { fetchPhotos() }, [showFeaturedOnly]) on mount
Mount ==
    /\ ~mounted
    /\ mounted' = TRUE
    /\ fetchPhotos(showFeaturedOnly, inflight)
    /\ lastEvent' = [type |-> "Mount", issued |-> listRequest(nextId, showFeaturedOnly)]
    /\ UNCHANGED <<photos, photosFrom, form, selectedTag, showFeaturedOnly, query>>
    /\ Render

\* As ToggleFeatured, the effect running the fetchPhotos of the render before
\* the change.
ToggleFeaturedStale ==
    /\ mounted
    /\ showFeaturedOnly' = ~showFeaturedOnly
    /\ fetchPhotos(showFeaturedOnly, inflight)
    /\ lastEvent' = [type |-> "ToggleFeatured",
                     issued |-> listRequest(nextId, showFeaturedOnly)]
    /\ UNCHANGED <<photos, photosFrom, form, selectedTag, query, mounted>>
    /\ Render

\* onChange of the "Featured only" checkbox, the render it causes and the
\* effect of that render, which runs the new render's fetchPhotos.
ToggleFeatured ==
    /\ mounted
    /\ showFeaturedOnly' = ~showFeaturedOnly
    /\ fetchPhotos(showFeaturedOnly', inflight)
    /\ lastEvent' = [type |-> "ToggleFeatured",
                     issued |-> listRequest(nextId, showFeaturedOnly')]
    /\ UNCHANGED <<photos, photosFrom, form, selectedTag, query, mounted>>
    /\ Render

\* onClick of a Tag button: one button per element of allTags.
SelectTag(i) ==
    /\ mounted
    /\ i \in 1..Len(allTags)
    /\ selectedTag' = allTags[i]
    /\ lastEvent' = [type |-> "Input"]
    /\ UNCHANGED <<loading, photos, photosFrom, error, form, showFeaturedOnly, query,
                   mounted, inflight, nextId>>
    /\ Render

SetQuery(q) ==
    /\ mounted
    /\ query' = q
    /\ lastEvent' = [type |-> "Input"]
    /\ UNCHANGED <<loading, photos, photosFrom, error, form, selectedTag, showFeaturedOnly,
                   mounted, inflight, nextId>>
    /\ Render

SetTitle(v) ==
    /\ mounted
    /\ title' = v
    /\ lastEvent' = [type |-> "Input"]
    /\ UNCHANGED <<loading, photos, photosFrom, error, description, imageUrl, tags, featured,
                   selectedTag, showFeaturedOnly, query, mounted, inflight, nextId>>
    /\ Render

SetDescription(v) ==
    /\ mounted
    /\ description' = v
    /\ lastEvent' = [type |-> "Input"]
    /\ UNCHANGED <<loading, photos, photosFrom, error, title, imageUrl, tags, featured,
                   selectedTag, showFeaturedOnly, query, mounted, inflight, nextId>>
    /\ Render

SetImageUrl(v) ==
    /\ mounted
    /\ imageUrl' = v
    /\ lastEvent' = [type |-> "Input"]
    /\ UNCHANGED <<loading, photos, photosFrom, error, title, description, tags, featured,
                   selectedTag, showFeaturedOnly, query, mounted, inflight, nextId>>
    /\ Render

SetTags(v) ==
    /\ mounted
    /\ tags' = v
    /\ lastEvent' = [type |-> "Input"]
    /\ UNCHANGED <<loading, photos, photosFrom, error, title, description, imageUrl, featured,
                   selectedTag, showFeaturedOnly, query, mounted, inflight, nextId>>
    /\ Render

SetFeatured ==
    /\ mounted
    /\ featured' = ~featured
    /\ lastEvent' = [type |-> "Input"]
    /\ UNCHANGED <<loading, photos, photosFrom, error, title, description, imageUrl, tags,
                   selectedTag, showFeaturedOnly, query, mounted, inflight, nextId>>
    /\ Render

----------------------------------------------------------------------------
(* handleAdd.                                                              *)

\* As missingRequired, with && for ||.
missingBoth(ti, im) == ti = <<>> /\ im = <<>>

\* !title || !imageUrl
missingRequired(ti, im) == ti = <<>> \/ im = <<>>

\* handleAdd up to its first await: the validation throws into the catch, or
\* the POST is issued.
HandleAdd ==
    /\ mounted
    /\ IF missingRequired(title, imageUrl)
       THEN /\ error' = MsgRequired
            /\ lastEvent' = [type |-> "SubmitRejected"]
            /\ UNCHANGED <<inflight, nextId>>
       ELSE /\ error' = ""
            /\ inflight' = inflight \cup
                   {postRequest(nextId,
                                payloadOf(title, description, imageUrl, tags, featured),
                                showFeaturedOnly)}
            /\ nextId' = nextId + 1
            /\ lastEvent' = [type |-> "SubmitSent", id |-> nextId, tagsInput |-> tags]
    /\ UNCHANGED <<loading, photos, photosFrom, form, selectedTag, showFeaturedOnly, query, mounted>>
    /\ Render

\* The POST resolves with res.ok: reset the form, then fetchPhotos() of the
\* render in which the form was submitted.
PostOk(r) ==
    /\ r \in Posts
    /\ title' = <<>>
    /\ description' = <<>>
    /\ imageUrl' = <<>>
    /\ tags' = <<>>
    /\ featured' = FALSE
    /\ fetchPhotos(r.closure, inflight \ {r})
    /\ lastEvent' = [type |-> "PostOk", id |-> r.id,
                     issued |-> inflight' \ inflight]
    /\ UNCHANGED <<photos, photosFrom, selectedTag, showFeaturedOnly, query, mounted>>
    /\ Render

\* As PostFail, the form reset before the response is looked at.
PostFailResets(r) ==
    /\ r \in Posts
    /\ error' = MsgSave
    /\ title' = <<>>
    /\ description' = <<>>
    /\ imageUrl' = <<>>
    /\ tags' = <<>>
    /\ featured' = FALSE
    /\ inflight' = inflight \ {r}
    /\ lastEvent' = [type |-> "PostFail", id |-> r.id, body |-> r.body]
    /\ UNCHANGED <<loading, photos, photosFrom, selectedTag, showFeaturedOnly, query,
                   mounted, nextId>>
    /\ Render

\* The POST resolves with !res.ok: throw new Error('Failed to save photo').
PostFail(r) ==
    /\ r \in Posts
    /\ error' = MsgSave
    /\ inflight' = inflight \ {r}
    /\ lastEvent' = [type |-> "PostFail", id |-> r.id, body |-> r.body]
    /\ UNCHANGED <<loading, photos, photosFrom, form, selectedTag, showFeaturedOnly, query,
                   mounted, nextId>>
    /\ Render

\* fetch() of the POST rejects.
PostNetErr(r, msg) ==
    /\ r \in Posts
    /\ error' = msg
    /\ inflight' = inflight \ {r}
    /\ lastEvent' = [type |-> "PostNetErr", id |-> r.id]
    /\ UNCHANGED <<loading, photos, photosFrom, form, selectedTag, showFeaturedOnly, query,
                   mounted, nextId>>
    /\ Render

----------------------------------------------------------------------------
(* fetchPhotos after its await.                                            *)

\* As applyList, a response older than the one photos holds discarded.
applyLatestOnly(r, data, current) == IF r.id > photosFrom.id THEN data ELSE current

\* What setPhotos(data) leaves in photos when the response to r arrives.
applyList(r, data, current) == data

\* What the finally block leaves in loading when r settles.
loadingAfter(r, others) == FALSE

\* res.ok: setPhotos(await res.json()); finally setLoading(false)
ListOk(r, data) ==
    /\ r \in Gets
    /\ photos' = applyList(r, data, photos)
    /\ photosFrom' = r
    /\ loading' = loadingAfter(r, Gets \ {r})
    /\ inflight' = inflight \ {r}
    /\ lastEvent' = [type |-> "ListOk", req |-> r, data |-> data,
                     before |-> photos, beforeFrom |-> photosFrom]
    /\ UNCHANGED <<error, form, selectedTag, showFeaturedOnly, query, mounted, nextId>>
    /\ Render

\* !res.ok: throw new Error('Failed to load photos'); finally setLoading(false)
ListFail(r) ==
    /\ r \in Gets
    /\ error' = MsgLoad
    /\ loading' = loadingAfter(r, Gets \ {r})
    /\ inflight' = inflight \ {r}
    /\ lastEvent' = [type |-> "ListFail", req |-> r]
    /\ UNCHANGED <<photos, photosFrom, form, selectedTag, showFeaturedOnly, query, mounted, nextId>>
    /\ Render

\* fetch() rejects or res.json() throws; finally setLoading(false)
ListNetErr(r, msg) ==
    /\ r \in Gets
    /\ error' = msg
    /\ loading' = loadingAfter(r, Gets \ {r})
    /\ inflight' = inflight \ {r}
    /\ lastEvent' = [type |-> "ListNetErr", req |-> r]
    /\ UNCHANGED <<photos, photosFrom, form, selectedTag, showFeaturedOnly, query, mounted, nextId>>
    /\ Render

----------------------------------------------------------------------------
(* Sets of texts.                                                          *)

Strs(A, n) == UNION {[1..k -> A] : k \in 0..n}

----------------------------------------------------------------------------
(* Spec: the component with every handler, over small inputs.              *)

Next ==
    \/ Mount
    \/ MayToggle(MaxReqs) /\ ToggleFeatured
    \/ \E i \in 1..Len(allTags) : SelectTag(i)
    \/ \E q \in Queries : SetQuery(q)
    \/ \E v \in Titles : SetTitle(v)
    \/ \E v \in Descriptions : SetDescription(v)
    \/ \E v \in ImageUrls : SetImageUrl(v)
    \/ \E v \in TagsInputs : SetTags(v)
    \/ SetFeatured
    \/ MaySubmit(MaxReqs) /\ HandleAdd
    \/ \E r \in Posts : PostOk(r)
    \/ \E r \in Posts : PostFail(r)
    \/ \E r \in Posts, msg \in NetErrMsgs : PostNetErr(r, msg)
    \/ \E r \in Gets : \E data \in ResponsesFor(r, PhotoLists) : ListOk(r, data)
    \/ \E r \in Gets : ListFail(r)
    \/ \E r \in Gets, msg \in NetErrMsgs : ListNetErr(r, msg)

Spec == Init /\ [][Next]_vars

----------------------------------------------------------------------------
(* SpecNet: the handlers that issue or settle requests, and the tag        *)
(* buttons; of the form, the two required fields.                          *)

NextNet ==
    \/ Mount
    \/ MayToggle(MaxReqs) /\ ToggleFeatured
    \/ \E i \in 1..Len(allTags) : SelectTag(i)
    \/ \E v \in Titles : SetTitle(v)
    \/ \E v \in ImageUrls : SetImageUrl(v)
    \/ MaySubmit(MaxReqs) /\ HandleAdd
    \/ \E r \in Posts : PostOk(r)
    \/ \E r \in Posts : PostFail(r)
    \/ \E r \in Posts, msg \in NetErrMsgs : PostNetErr(r, msg)
    \/ \E r \in Gets : \E data \in ResponsesFor(r, PhotoLists) : ListOk(r, data)
    \/ \E r \in Gets : ListFail(r)
    \/ \E r \in Gets, msg \in NetErrMsgs : ListNetErr(r, msg)

SpecNet == Init /\ [][NextNet]_vars

----------------------------------------------------------------------------
(* SpecForm: the form, its submission and what settles it.                 *)

NextForm ==
    \/ Mount
    \/ \E v \in Titles : SetTitle(v)
    \/ \E v \in Descriptions : SetDescription(v)
    \/ \E v \in ImageUrls : SetImageUrl(v)
    \/ \E v \in TagsInputs : SetTags(v)
    \/ SetFeatured
    \/ MaySubmit(MaxReqs) /\ HandleAdd
    \/ \E r \in Posts : PostOk(r)
    \/ \E r \in Posts : PostFail(r)
    \/ \E r \in Posts, msg \in NetErrMsgs : PostNetErr(r, msg)
    \/ \E r \in Gets : \E data \in ResponsesFor(r, PhotoLists) : ListOk(r, data)
    \/ \E r \in Gets : ListFail(r)

SpecForm == Init /\ [][NextForm]_vars

----------------------------------------------------------------------------
(* SpecView: browsing.  The lists the backend answers with and the search  *)
(* texts typed are drawn from wider sets.                                  *)

Beach  == <<"b","e","a","c","h">>
Travel == <<"t","r","a","v","e","l">>

Sunset == [id |-> 1, title |-> <<"S","u","n","s","e","t">>, image_url |-> <<"u">>,
           tags |-> <<Beach, Travel>>, featured |-> TRUE]
Cabin  == [id |-> 2, title |-> <<"C","a","b","i","n">>, image_url |-> <<"u">>,
           tags |-> <<Travel>>, featured |-> FALSE]
\* found by the description only; a tag twice
PhotoV1 == [id |-> 3, title |-> <<"b">>, description |-> <<"a","B">>, image_url |-> <<"u">>,
            tags |-> <<<<"a">>, <<"a">>>>, featured |-> TRUE]
\* neither description nor tags
PhotoV2 == [id |-> 4, title |-> <<"A","b">>, image_url |-> <<"u">>, featured |-> FALSE]
\* a tag that reads as the sentinel
PhotoV3 == [id |-> 5, title |-> <<"B"," ","a">>, description |-> <<>>, image_url |-> <<"u">>,
            tags |-> <<<<"b">>, <<"a">>, All>>, featured |-> TRUE]

ViewLists ==
    {<<>>, <<Sunset, Cabin>>, <<PhotoV1, PhotoV2, PhotoV3>>, <<PhotoV3, PhotoV1>>,
     <<PhotoV2>>, <<PhotoV1, PhotoV3, PhotoV1>>}

ViewQueries ==
    Strs({"a", "B", " "}, MaxQueryLen)
        \cup {<<"c","a","b">>, <<" ","C","A","B","\t">>}

NextView ==
    \/ Mount
    \/ MayToggle(MaxViewReqs) /\ ToggleFeatured
    \/ \E i \in 1..Len(allTags) : SelectTag(i)
    \/ \E q \in ViewQueries : SetQuery(q)
    \/ \E r \in Gets : \E data \in ResponsesFor(r, ViewLists) : ListOk(r, data)

SpecView == Init /\ [][NextView]_vars

----------------------------------------------------------------------------
(* SpecTags: the tags field, typed from a wider set, and the submission.   *)

ExampleTags ==
    <<"t","r","a","v","e","l", ",", " ", ",", " ", "f","a","m","i","l","y", ",",
      " ", " ", "n","a","t","u","r","e", " ", ",">>

TagsTyped == Strs({"a", ",", " "}, MaxTagsLen) \cup {ExampleTags}

NextTags ==
    \/ Mount
    \/ \E v \in Titles : SetTitle(v)
    \/ \E v \in ImageUrls : SetImageUrl(v)
    \/ \E v \in TagsTyped : SetTags(v)
    \/ MaySubmit(MaxTagsReqs) /\ HandleAdd
    \/ \E r \in Posts : PostFail(r)

SpecTags == Init /\ [][NextTags]_vars

----------------------------------------------------------------------------
(* Properties.                                                             *)

FeaturedParam(r) == <<"featured", "true">> \in r.params

\* The step issues exactly one request, a list request, whose featured
\* parameter is set iff v.
IssuesOneList(v) ==
    \E r \in inflight' \ inflight :
        /\ inflight' = inflight \cup {r}
        /\ r.method = "GET"
        /\ FeaturedParam(r) <=> v

\* C1: a submit with an empty title or an empty imageUrl issues no request,
\* ends with a non-empty error and leaves the form fields and photos as
\* they were.
C1_RejectedSubmit ==
    [][ (/\ lastEvent'.type \in {"SubmitRejected", "SubmitSent"}
         /\ (title = <<>> \/ imageUrl = <<>>))
        => (/\ inflight' = inflight
            /\ nextId' = nextId
            /\ error' # ""
            /\ UNCHANGED form
            /\ photos' = photos) ]_vars

C1_Witness ==
    /\ lastEvent.type = "SubmitRejected"
    /\ title # <<>> /\ imageUrl = <<>> /\ tags # <<>>
    /\ error = MsgRequired
    /\ photos # <<>>

\* C8: when the POST of a submit fails with a non-2xx response, error becomes
\* "Failed to save photo", the handler issues no list request, and photos
\* and the form fields are unchanged.
C8_FailedSave ==
    [][ lastEvent'.type = "PostFail"
        => (/\ error' = MsgSave
            /\ inflight' \subseteq inflight
            /\ nextId' = nextId
            /\ photos' = photos
            /\ UNCHANGED form) ]_vars

C8_Witness ==
    /\ lastEvent.type = "PostFail"
    /\ error = MsgSave
    /\ title # <<>> /\ imageUrl # <<>> /\ description # <<>> /\ tags # <<>> /\ featured
    /\ payloadOf(title, description, imageUrl, tags, featured) = lastEvent.body

\* C6: mount issues one list request without the featured parameter; every
\* change of showFeaturedOnly issues exactly one list request whose featured
\* parameter is set iff the new value is true; when a list request resolves
\* successfully, photos becomes exactly the response sequence.
C6_FetchOnMountAndToggle ==
    [][ /\ lastEvent'.type = "Mount" => IssuesOneList(FALSE)
        /\ showFeaturedOnly' # showFeaturedOnly => IssuesOneList(showFeaturedOnly')
        /\ lastEvent'.type = "ListOk" => photos' = lastEvent'.data ]_vars

C6_Witness ==
    /\ lastEvent.type = "ListOk"
    /\ showFeaturedOnly
    /\ FeaturedParam(lastEvent.req)
    /\ lastEvent.before = <<PhotoY, PhotoX>>
    /\ photos = <<PhotoX>>

\* C9: the response to a list request issued before the one photos holds,
\* arriving later, overwrites photos: responses are applied in arrival
\* order.
C9_StaleResponseOverwrites ==
    (lastEvent.type = "ListOk" /\ lastEvent.req.id < lastEvent.beforeFrom.id)
        => (photos = lastEvent.data /\ photosFrom = lastEvent.req)

\* No request is in flight and photos holds the response to a request whose
\* featured filter is not the current showFeaturedOnly.
C9_Witness ==
    /\ lastEvent.type = "ListOk"
    /\ lastEvent.req.id < lastEvent.beforeFrom.id
    /\ inflight = {}
    /\ FeaturedParam(photosFrom) # showFeaturedOnly
    /\ photos = lastEvent.data
    /\ photos # lastEvent.before

----------------------------------------------------------------------------
(* The filtered view and the tags of the payload, as the claims state      *)
(* them.                                                                   *)

\* sub occurs in s at consecutive positions
OccursIn(sub, s) ==
    \E i \in 1..(Len(s) + 1) :
        \A j \in 1..Len(sub) : i + j - 1 <= Len(s) /\ s[i + j - 1] = sub[j]

\* s without the whitespace around it
Stripped(s) ==
    LET inked == {i \in 1..Len(s) : ~IsWhiteSpace(s[i])}
    IN  IF inked = {} THEN <<>>
        ELSE SubSeq(s, CHOOSE i \in inked : \A j \in inked : i <= j,
                       CHOOSE i \in inked : \A j \in inked : j <= i)

HasTag(p, t) == "tags" \in DOMAIN p /\ \E i \in DOMAIN p.tags : p.tags[i] = t

Qualifies(p, t, q) ==
    LET n == toLowerCase(Stripped(q))
        d == IF "description" \in DOMAIN p THEN p.description ELSE <<>>
    IN  /\ t = All \/ HasTag(p, t)
        /\ \/ n = <<>>
           \/ OccursIn(n, toLowerCase(p.title))
           \/ OccursIn(n, toLowerCase(d))

\* The k-th smallest element of a set of numbers
Nth(S, k) == CHOOSE i \in S : Cardinality({j \in S : j <= i}) = k

\* C3: filtered is exactly the subsequence of photos, in the order of photos,
\* of the photos that pass the tag test and the text test.
C3_FilteredIsQualifyingSubsequence ==
    LET idx == {i \in 1..Len(photos) : Qualifies(photos[i], selectedTag, query)}
    IN  /\ Len(filtered) = Cardinality(idx)
        /\ \A k \in 1..Len(filtered) : filtered[k] = photos[Nth(idx, k)]

C3_Witness ==
    /\ photos = <<PhotoV1, PhotoV2, PhotoV3>>
    /\ selectedTag = <<"a">>
    /\ query = <<" ", "B">>
    /\ filtered = <<PhotoV1, PhotoV3>>

\* The comma-separated pieces of s, each stripped, the empty ones dropped.
Tokens(s) ==
    LET cuts  == {0} \cup {i \in 1..Len(s) : s[i] = ","} \cup {Len(s) + 1}
        piece(b) == LET e == CHOOSE c \in cuts : c > b /\ \A x \in cuts : x > b => c <= x
                    IN  Stripped(SubSeq(s, b + 1, e - 1))
        kept  == {b \in cuts : b <= Len(s) /\ piece(b) # <<>>}
    IN  [k \in 1..Cardinality(kept) |-> piece(Nth(kept, k))]

SentPost == CHOOSE r \in Posts : r.id = lastEvent.id

\* C7: the tags of the create payload are the comma-split tokens of the
\* tags input, trimmed, the empty ones dropped, in input order, duplicates
\* kept; the example of the specification parses to travel, family, nature.
C7_PayloadTags ==
    /\ lastEvent.type = "SubmitSent" => SentPost.body.tags = Tokens(lastEvent.tagsInput)
    /\ lastEvent.type = "SubmitSent" /\ lastEvent.tagsInput = ExampleTags
          => SentPost.body.tags = <<Travel, <<"f","a","m","i","l","y">>,
                                    <<"n","a","t","u","r","e">>>>
    /\ lastEvent.type = "SubmitSent" /\ lastEvent.tagsInput = <<>>
          => SentPost.body.tags = <<>>

C7_Witness ==
    /\ lastEvent.type = "SubmitSent"
    /\ lastEvent.tagsInput = <<"a", ",", "a">>
    /\ SentPost.body.tags = <<<<"a">>, <<"a">>>>

----------------------------------------------------------------------------
(* Statements the component does not satisfy.                              *)

\* C2: after a successful create the form is cleared and exactly one list
\* request is issued, which carries the featured filter of the value
\* showFeaturedOnly has when the re-fetch is issued.
C2_RefetchUsesCurrentFilter ==
    lastEvent.type = "PostOk"
        => /\ title = <<>> /\ description = <<>> /\ imageUrl = <<>>
           /\ tags = <<>> /\ featured = FALSE
           /\ Cardinality(lastEvent.issued) = 1
           /\ \A r \in lastEvent.issued :
                  r.method = "GET" /\ (FeaturedParam(r) <=> showFeaturedOnly)

\* The tags of the photos, in the order the photos and their tags are given.
RECURSIVE FlatTags(_)
FlatTags(ps) ==
    IF ps = <<>> THEN <<>>
    ELSE (IF "tags" \in DOMAIN Head(ps) THEN Head(ps).tags ELSE <<>>) \o FlatTags(Tail(ps))

FirstSeen(ts, t) == CHOOSE i \in 1..Len(ts) : ts[i] = t /\ \A j \in 1..(i - 1) : ts[j] # t

\* C4: allTags begins with "All" and then holds each distinct tag of the
\* photos exactly once, in first-seen order; no element occurs twice.
C4_VocabularyHasNoDuplicate ==
    LET ts == FlatTags(photos)
    IN  /\ allTags[1] = All
        /\ \A i \in 1..Len(ts) : Cardinality({k \in 2..Len(allTags) : allTags[k] = ts[i]}) = 1
        /\ \A k \in 2..Len(allTags) : \E i \in 1..Len(ts) : ts[i] = allTags[k]
        /\ \A k, l \in 2..Len(allTags) :
               k < l => FirstSeen(ts, allTags[k]) < FirstSeen(ts, allTags[l])
        /\ \A k, l \in 1..Len(allTags) : k # l => allTags[k] # allTags[l]

\* C5: selectedTag is "All" or a tag of some photo of the current photos.
C5_SelectedTagIsInPhotos ==
    selectedTag = All \/ \E i \in 1..Len(photos) : HasTag(photos[i], selectedTag)

\* C10: loading is true whenever a list request is in flight, and false
\* once none is.
C10_LoadingTracksListRequests ==
    /\ Gets # {} => loading = TRUE
    /\ Gets = {} => loading = FALSE

====
